---- MODULE Spec2Model ----
(***************************************************************************)
(* gdsctools/readers.py: the readers IC50 and GenomicFeatures, their       *)
(* constructors (from a file, an instance or a dataframe), Reader.to_csv   *)
(* and the tissue filters drop_tissue_in / keep_tissue_in with _cleanup.   *)
(*                                                                         *)
(* A dataframe is a record (index_name, index, columns, data); dataframes  *)
(* live in a heap of locations so that "self.df = filename" (an alias) and *)
(* "filename.df.copy()" (a fresh frame) are different things.  A file is   *)
(* the delimiter it was written with, its header fields and its rows of    *)
(* text fields.                                                            *)
(***************************************************************************)
EXTENDS Integers, Sequences, FiniteSets, TLC

VARIABLES fs, heap, obj, prev, err

vars == <<fs, heap, obj, prev, err>>

(***************************************************************************)
(* Bounds.                                                                 *)
(***************************************************************************)
MaxRows == 2

(***************************************************************************)
(* Cell values: an integer, a string or NaN (pandas' missing value).       *)
(***************************************************************************)
Int_(n) == [t |-> "int", n |-> n, s |-> ""]
Str_(s) == [t |-> "str", n |-> 0, s |-> s]
NaN == [t |-> "nan", n |-> 0, s |-> ""]

Numerals == -1 .. 9

Tab == "\t"
Comma == ","
Seps == {Tab, Comma}

\* what DataFrame.to_csv writes for a cell (na_rep is the empty string)
Format(v) ==
    CASE v.t = "nan" -> ""
      [] v.t = "int" -> ToString(v.n)
      [] OTHER -> v.s

\* what read_csv makes of a text field
Parse(text) ==
    IF text = "" THEN NaN
    ELSE IF \E n \in Numerals : ToString(n) = text
         THEN Int_(CHOOSE n \in Numerals : ToString(n) = text)
         ELSE Str_(text)

(***************************************************************************)
(* Sequence helpers.                                                       *)
(***************************************************************************)
Range(q) == {q[i] : i \in DOMAIN q}

\* the sequence f, with its elements computed once
Tuple(f) == f \o <<>>

IndexOf(q, x) == CHOOSE i \in DOMAIN q : q[i] = x

RECURSIVE Join(_, _)
Join(fields, d) ==
    IF Len(fields) = 0 THEN ""
    ELSE IF Len(fields) = 1 THEN fields[1]
    ELSE fields[1] \o d \o Join(Tail(fields), d)

\* the positions of q that satisfy keep, in increasing order
RECURSIVE Positions(_, _)
Positions(n, keep) ==
    IF n = 0 THEN <<>>
    ELSE IF n \in keep THEN Append(Positions(n - 1, keep), n)
         ELSE Positions(n - 1, keep)

(***************************************************************************)
(* Column names of the two matrices.                                       *)
(***************************************************************************)
COSMIC_ID == "COSMIC ID"
col_tissue == "Tissue Factor Value"
col_sample == "Sample Name"
col_msi == "MS-instability Factor Value"
NoName == "<None>"

\* x.startswith('Drug') and x.startswith('Drug_'), on the names that occur
DrugUnderscoreNames == {"Drug_1_IC50"}
DrugNames == DrugUnderscoreNames \cup {"Drug1_AUC"}

(***************************************************************************)
(* Dataframes.                                                             *)
(***************************************************************************)
NoDf == [index_name |-> NoName, index |-> <<>>, columns |-> <<"<no frame>">>,
         data |-> <<>>]

NRows(t) == Len(t.index)

Column(t, name) ==
    LET k == IndexOf(t.columns, name)
    IN  Tuple([i \in 1 .. NRows(t) |-> t.data[i][k]])

\* df[cols] for a list of column names that are all present
SelectColumns(t, cols) ==
    LET at == Tuple([k \in 1 .. Len(cols) |-> IndexOf(t.columns, cols[k])])
    IN  [t EXCEPT !.columns = cols,
                  !.data = Tuple([i \in 1 .. NRows(t) |->
                               Tuple([k \in 1 .. Len(cols) |->
                                          t.data[i][at[k]]])])]

\* df.set_index(name, inplace=True)
SetIndex(t, name) ==
    LET rest == SelectSeq(t.columns, LAMBDA c : c # name)
    IN  [index_name |-> name,
         index |-> Column(t, name),
         columns |-> rest,
         data |-> SelectColumns(t, rest).data]

\* df[mask] for a boolean mask given as the set of positions to keep
TakeRows(t, keep) ==
    LET pos == Positions(NRows(t), keep)
    IN  [t EXCEPT !.index = Tuple([i \in 1 .. Len(pos) |-> t.index[pos[i]]]),
                  !.data = Tuple([i \in 1 .. Len(pos) |-> t.data[pos[i]]])]

\* df.drop(todrop, axis=1)
DropColumns(t, todrop) ==
    SelectColumns(t, SelectSeq(t.columns, LAMBDA c : c \notin Range(todrop)))

Num(v) == IF v.t = "int" THEN v.n ELSE 0

RECURSIVE SumSeq(_)
SumSeq(q) == IF Len(q) = 0 THEN 0 ELSE Num(Head(q)) + SumSeq(Tail(q))

\* view.sum()[name]: the sum of a column, missing values skipped
ColumnSum(t, name) == SumSeq(Column(t, name))

(***************************************************************************)
(* Delimited text files: pandas.read_csv and DataFrame.to_csv.             *)
(***************************************************************************)
NoFile == [delim |-> "", header |-> <<>>, rows |-> <<>>]

UnnamedColumn(k) == "Unnamed: " \o ToString(k)

\* the fields of a line written with delimiter delim when split on sep
SplitLine(line, delim, sep) ==
    IF sep = delim \/ Len(line) <= 1 THEN line ELSE <<Join(line, delim)>>

ReadCsv(file, sep) ==
    LET h == SplitLine(file.header, file.delim, sep)
    IN  [index_name |-> NoName,
         index |-> Tuple([i \in 1 .. Len(file.rows) |-> Int_(i - 1)]),
         columns |-> Tuple([k \in 1 .. Len(h) |->
                        IF h[k] = "" THEN UnnamedColumn(k - 1) ELSE h[k]]),
         data |-> Tuple([i \in 1 .. Len(file.rows) |->
                     LET cells == SplitLine(file.rows[i], file.delim, sep)
                     IN  Tuple([k \in 1 .. Len(cells) |-> Parse(cells[k])])])]

\* faulty variant: the index is not written, as with index=False
WriteCsvNoIndex(t, sep) ==
    [delim |-> sep,
     header |-> t.columns,
     rows |-> Tuple([i \in 1 .. NRows(t) |->
                 Tuple([k \in 1 .. Len(t.columns) |-> Format(t.data[i][k])])])]

\* df.to_csv(filename, sep=sep)
WriteCsv(t, sep) ==
    [delim |-> sep,
     header |-> <<IF t.index_name = NoName THEN "" ELSE t.index_name>>
                \o t.columns,
     rows |-> Tuple([i \in 1 .. NRows(t) |->
                 <<Format(t.index[i])>>
                 \o [k \in 1 .. Len(t.columns) |-> Format(t.data[i][k])]])]

(***************************************************************************)
(* The heap of dataframes.  SrcLocs hold the caller's own dataframes, the  *)
(* other locations are handed out to the frames the readers create.        *)
(***************************************************************************)
SrcLocs == {"raw_frame", "indexed_frame"}
NewLocs == {"df1", "df2", "df3", "df4"}
Locs == SrcLocs \cup NewLocs

\* a new dataframe object holding t
Alloc(h, t) ==
    LET l == CHOOSE l \in NewLocs : h[l] = NoDf
    IN  [heap |-> [h EXCEPT ![l] = t], ref |-> l]

\* df.copy(): a new dataframe object with the same content
Copy(h, ref) == Alloc(h, h[ref])

\* df[cols]: a new dataframe object holding the selected columns
\* faulty variant: the columns are selected in the dataframe itself
TakeInPlace(h, ref, cols) ==
    [heap |-> [h EXCEPT ![ref] = SelectColumns(h[ref], cols)], ref |-> ref]

Take(h, ref, cols) == Alloc(h, SelectColumns(h[ref], cols))


(***************************************************************************)
(* Reader objects.                                                         *)
(***************************************************************************)
NoErr == "<no error>"
NoSep == "<None>"

NoObj == [cls |-> "<none>", sep |-> "", df |-> ""]

\* What the caller holds after an operation: the object o and the instance
\* p it was built from.  Frames nobody refers to any more are forgotten and
\* the frames of o and p are named df1 and df2 (which location a frame has
\* is immaterial, which frames are one and the same object is kept).
Settle(h, o, p) ==
    LET own(x) == x # NoObj /\ x.df \in NewLocs
        po == IF own(o) THEN [o EXCEPT !.df = "df1"] ELSE o
        pp == IF ~own(p) THEN p
              ELSE IF p.df = o.df THEN [p EXCEPT !.df = "df1"]
              ELSE [p EXCEPT !.df = "df2"]
    IN  [obj |-> po,
         prev |-> pp,
         heap |-> [l \in Locs |->
                     CASE l \in SrcLocs -> h[l]
                       [] l = "df1" /\ own(o) -> h[o.df]
                       [] l = "df2" /\ own(p) /\ p.df # o.df -> h[p.df]
                       [] OTHER -> NoDf]]

\* the constructor's filename argument
FileNames == {"in.tsv", "in.csv", "out.txt"}
FileArg(f) == [kind |-> "str", name |-> f]
InstanceArg == [kind |-> "instance", name |-> ""]
FrameArg(l) == [kind |-> "dataframe", name |-> l]
OtherArg == [kind |-> "other", name |-> ""]

Raised(h, e) == [err |-> e, obj |-> NoObj, heap |-> h]

\* faulty variant: an input of another type gives an empty IC50
IC50_accept(h, self) ==
    LET a == Alloc(h, [NoDf EXCEPT !.columns = <<>>])
    IN  [err |-> NoErr, obj |-> [self EXCEPT !.df = a.ref], heap |-> a.heap]

\* raise TypeError("Input must be a filename, a IC50 instance, or a
\* dataframe")
IC50_reject(h, self) == Raised(h, "TypeError")

\* Reader.__init__(filename, sep)
Reader_init(cls, sep) == [NoObj EXCEPT !.cls = cls, !.sep = sep]

\* [x for x in self.rawdf.columns if x.startswith('Drug')]
DrugColumns(columns) == SelectSeq(columns, LAMBDA x : x \in DrugNames)

\* faulty variant: the Drug_ columns are kept
AllColumns(columns) == columns

\* [x for x in self.df.columns if x.startswith('Drug_') is False]
NonDrugColumns(columns) ==
    SelectSeq(columns, LAMBDA x : x \notin DrugUnderscoreNames)

\* IC50.__init__(filename, sep), cur being the instance passed as filename
IC50_init(h, files, arg, sep, cur) ==
    LET self == Reader_init("IC50", sep)
    IN  IF arg.kind = "str"
        THEN IF files[arg.name] = NoFile
             THEN Raised(h, "IOError")
             ELSE LET rawdf == ReadCsv(files[arg.name], self.sep)
                      columns == <<COSMIC_ID>> \o DrugColumns(rawdf.columns)
                  IN  IF ~(Range(columns) \subseteq Range(rawdf.columns))
                      THEN Raised(h, "KeyError")
                      ELSE LET a == Alloc(h, SetIndex(
                                       SelectColumns(rawdf, columns), COSMIC_ID))
                           IN  [err |-> NoErr,
                                obj |-> [self EXCEPT !.df = a.ref],
                                heap |-> a.heap]
        ELSE IF arg.kind = "instance" /\ cur.cls = "IC50"
        THEN LET a == Copy(h, cur.df)
             IN  [err |-> NoErr,
                  obj |-> [self EXCEPT !.df = a.ref], heap |-> a.heap]
        ELSE IF arg.kind = "dataframe"
        THEN LET a == Copy(h, arg.name)
             IN  [err |-> NoErr, obj |-> [self EXCEPT !.df = a.ref],
                  heap |-> a.heap]
        ELSE IC50_reject(h, self)

\* faulty variant: the compulsory columns are not looked for
CompulsoryAbsent(columns) == {}

\* the compulsory columns that are not in the dataframe
CompulsoryMissing(columns) ==
    {col_tissue, col_sample, col_msi} \ Range(columns)

\* GenomicFeatures.__init__(filename, sep), from "Remove columns related
\* to Drug" on: self.df is the frame at loaded.ref
GenomicFeatures_finish(self, loaded) ==
    LET kept == Take(loaded.heap, loaded.ref,
                     NonDrugColumns(loaded.heap[loaded.ref].columns))
    IN  IF CompulsoryMissing(kept.heap[kept.ref].columns) # {}
        THEN Raised(loaded.heap, "AssertionError")
        ELSE [err |-> NoErr, obj |-> [self EXCEPT !.df = kept.ref],
              heap |-> kept.heap]

\* GenomicFeatures.__init__(filename, sep): Reader.__init__ is called
\* without sep, so self._sep is the tabulation whatever sep is
GenomicFeatures_init(h, files, arg, sep, cur) ==
    LET self == Reader_init("GenomicFeatures", Tab)
    IN  IF arg.kind = "str"
        THEN IF files[arg.name] = NoFile
             THEN Raised(h, "IOError")
             ELSE LET df == ReadCsv(files[arg.name], self.sep)
                  IN  IF COSMIC_ID \notin Range(df.columns)
                      THEN Raised(h, "AssertionError")
                      ELSE GenomicFeatures_finish(
                               self, Alloc(h, SetIndex(df, COSMIC_ID)))
        ELSE IF arg.kind = "instance"
        THEN GenomicFeatures_finish(self, Copy(h, cur.df))
        ELSE IF arg.kind = "dataframe"
        THEN GenomicFeatures_finish(self, [heap |-> h, ref |-> arg.name])
        ELSE Raised(h, "AttributeError")

Init_(cls, h, files, arg, sep, cur) ==
    IF cls = "IC50" THEN IC50_init(h, files, arg, sep, cur)
    ELSE GenomicFeatures_init(h, files, arg, sep, cur)

(***************************************************************************)
(* Tissue filters of GenomicFeatures.                                      *)
(***************************************************************************)
required_features == 0

\* the tissues argument: one tissue as a string, or a list of tissues
OneTissue(x) == [kind |-> "str", str |-> x, list |-> <<>>]
TissueList(q) == [kind |-> "list", str |-> "", list |-> q]

\* easydev.to_list(tissues)
to_list(tissues) ==
    IF tissues.kind = "str" THEN <<tissues.str>> ELSE tissues.list

\* self.df[self._col_tissue].isin(tissues), as the set of positions
IsIn(t, tissues) ==
    {i \in 1 .. NRows(t) :
        LET v == Column(t, col_tissue)[i]
        IN  v.t = "str" /\ v.s \in Range(tissues)}

\* list(view.columns[view.sum() <= required_features])
ToDrop(t) ==
    LET to_ignore == {col_tissue, col_msi, col_sample}
        view == SelectSeq(t.columns, LAMBDA x : x \notin to_ignore)
    IN  SelectSeq(view, LAMBDA x : ColumnSum(t, x) <= required_features)

\* GenomicFeatures._cleanup(): the columns are dropped in place
cleanup(h, ref) == [h EXCEPT ![ref] = DropColumns(h[ref], ToDrop(h[ref]))]

\* the rows kept by drop_tissue_in (keep = FALSE) and keep_tissue_in (TRUE)
\* faulty variants: no row is filtered; drop and keep are exchanged
MaskAll(t, tissues, keep) == 1 .. NRows(t)

MaskSwapped(t, tissues, keep) ==
    IF keep THEN (1 .. NRows(t)) \ IsIn(t, tissues) ELSE IsIn(t, tissues)

Mask(t, tissues, keep) ==
    IF keep THEN IsIn(t, tissues) ELSE (1 .. NRows(t)) \ IsIn(t, tissues)

\* drop_tissue_in / keep_tissue_in: self.df = self.df[mask]; self._cleanup()
filter_tissue(h, self, tissues, keep) ==
    LET masked == Alloc(h, TakeRows(h[self.df],
                                    Mask(h[self.df], to_list(tissues), keep)))
    IN  [obj |-> [self EXCEPT !.df = masked.ref],
         heap |-> cleanup(masked.heap, masked.ref)]

(***************************************************************************)
(* Reader.to_csv(filename, sep)                                            *)
(***************************************************************************)
\* sep=None stands for the separator of the object
SepUsed(self, sep) == IF sep = NoSep THEN self.sep ELSE sep

to_csv_file(h, self, sep) == WriteCsv(h[self.df], SepUsed(self, sep))

(***************************************************************************)
(* The inputs: a matrix of at most MaxRows cell lines, saved under one of  *)
(* the headers below as a tab-separated and as a comma-separated file, and *)
(* held by the caller as two dataframes (as read, and indexed by COSMIC    *)
(* ID).                                                                    *)
(***************************************************************************)
CellLine(cosmic, tissue, sample, msi, braf, tp53, cna, ic50, auc) ==
    (COSMIC_ID :> Int_(cosmic)) @@ (col_tissue :> Str_(tissue))
    @@ (col_sample :> Str_(sample)) @@ (col_msi :> Int_(msi))
    @@ ("BRAF_mut" :> Int_(braf)) @@ ("TP53_mut" :> Int_(tp53))
    @@ ("loss_cna1" :> Int_(cna)) @@ ("Drug_1_IC50" :> ic50)
    @@ ("Drug1_AUC" :> Int_(auc))

CellLines ==
    <<CellLine(1, "lung", "S1", 0, 1, 0, 1, Int_(2), 1),
      CellLine(1, "skin", "S2", 1, 0, 1, -1, NaN, 0),
      CellLine(2, "lung", "S3", 0, 0, 1, 0, Int_(3), 0),
      CellLine(3, "bone", "S4", 1, 1, 0, 1, Int_(2), 1)>>

\* the first n cell lines, n <= MaxRows (cell lines repeat after the fourth)
Matrices ==
    {[i \in 1 .. n |-> CellLines[((i - 1) % Len(CellLines)) + 1]] :
        n \in 0 .. MaxRows}

Headers ==
    {<<COSMIC_ID, col_tissue, "Drug_1_IC50", col_sample, col_msi, "BRAF_mut",
       "Drug1_AUC", "TP53_mut", "loss_cna1">>,
     <<col_tissue, COSMIC_ID, col_sample, col_msi, "BRAF_mut", "TP53_mut">>,
     <<COSMIC_ID, "Drug_1_IC50">>,
     <<col_tissue, col_sample, col_msi, "BRAF_mut", "Drug_1_IC50">>,
     <<COSMIC_ID, col_tissue, col_sample, "BRAF_mut">>,
     <<COSMIC_ID>>}

Tissues == {"lung", "skin"}

TissueArgs ==
    {OneTissue(x) : x \in Tissues}
    \cup {TissueList(q) : q \in {<<>>, <<"skin">>, <<"lung", "skin">>}}

InputFile(header, matrix, delim) ==
    [delim |-> delim,
     header |-> header,
     rows |-> Tuple([i \in 1 .. Len(matrix) |->
                 Tuple([k \in 1 .. Len(header) |->
                            Format(matrix[i][header[k]])])])]

InputFrame(header, matrix) == ReadCsv(InputFile(header, matrix, Tab), Tab)

Init ==
    \E header \in Headers, matrix \in Matrices :
        /\ fs = [f \in FileNames |->
                   CASE f = "in.tsv" -> InputFile(header, matrix, Tab)
                     [] f = "in.csv" -> InputFile(header, matrix, Comma)
                     [] OTHER -> NoFile]
        /\ heap = [l \in Locs |->
                     CASE l = "raw_frame" -> InputFrame(header, matrix)
                       [] l = "indexed_frame" ->
                            IF COSMIC_ID \in Range(header)
                            THEN SetIndex(InputFrame(header, matrix), COSMIC_ID)
                            ELSE NoDf
                       [] OTHER -> NoDf]
        /\ obj = NoObj
        /\ prev = NoObj
        /\ err = NoErr

(***************************************************************************)
(* Operations.                                                             *)
(***************************************************************************)
Classes == {"IC50", "GenomicFeatures"}

\* new = cls(filename, sep): on success the caller holds the new object
\* and, when filename was an instance, that instance; an exception ends
\* the run and the caller holds no object (the files stay)
Construct(cls, arg, sep) ==
    LET r == Init_(cls, heap, fs, arg, sep, obj)
        s == IF r.err = NoErr
             THEN Settle(r.heap, r.obj,
                         IF arg.kind = "instance" THEN obj ELSE NoObj)
             ELSE Settle(heap, NoObj, NoObj)
    IN  /\ err' = r.err
        /\ obj' = s.obj
        /\ prev' = s.prev
        /\ heap' = s.heap
        /\ UNCHANGED fs

\* cls(filename, sep) for the name of a file
NewFromFile(cls, f, sep) == Construct(cls, FileArg(f), sep)

\* cls(obj) for the object at hand
NewFromInstance(cls) ==
    /\ obj # NoObj
    /\ Construct(cls, InstanceArg, Tab)

\* cls(df) for one of the caller's dataframes
NewFromDataFrame(cls, l) ==
    /\ heap[l] # NoDf
    /\ Construct(cls, FrameArg(l), Tab)

\* cls(x) for an x that is no string, no reader and no dataframe
NewFromOther(cls) == Construct(cls, OtherArg, Tab)

FilterTissue(tissues, keep) ==
    /\ obj.cls = "GenomicFeatures"
    /\ LET r == filter_tissue(heap, obj, tissues, keep)
           s == Settle(r.heap, r.obj, prev)
       IN  obj' = s.obj /\ prev' = s.prev /\ heap' = s.heap
    /\ err' = NoErr
    /\ UNCHANGED fs

drop_tissue_in(tissues) == FilterTissue(tissues, FALSE)

keep_tissue_in(tissues) == FilterTissue(tissues, TRUE)

to_csv(sep) ==
    /\ obj # NoObj
    /\ fs' = [fs EXCEPT !["out.txt"] = to_csv_file(heap, obj, sep)]
    /\ err' = NoErr
    /\ UNCHANGED <<heap, obj, prev>>

Next ==
    \/ \E cls \in Classes, f \in FileNames, sep \in Seps :
           NewFromFile(cls, f, sep)
    \/ \E cls \in Classes : NewFromInstance(cls)
    \/ \E cls \in Classes, l \in SrcLocs : NewFromDataFrame(cls, l)
    \/ \E cls \in Classes : NewFromOther(cls)
    \/ \E tissues \in TissueArgs : drop_tissue_in(tissues)
    \/ \E tissues \in TissueArgs : keep_tissue_in(tissues)
    \/ \E sep \in Seps \cup {NoSep} : to_csv(sep)

Spec == Init /\ [][Next]_vars

(***************************************************************************)
(* Properties.                                                             *)
(***************************************************************************)
Df(o) == heap[o.df]

Special == {col_tissue, col_sample, col_msi}

IsGF(o) == o.cls = "GenomicFeatures"

TissueSet(tissues) ==
    IF tissues.kind = "str" THEN {tissues.str} ELSE Range(tissues.list)

\* the rows of t whose tissue is (wanted) or is not (~wanted) in tissues
RowsWanted(t, tissues, wanted) ==
    {i \in 1 .. NRows(t) :
        (t.data[i][IndexOf(t.columns, col_tissue)].s \in TissueSet(tissues))
            = wanted}

\* new holds exactly the rows of old at the positions rows, in their order,
\* with their index and their values in the columns that new has
SameRows(old, new, rows) ==
    LET pos == Positions(NRows(old), rows)
    IN  /\ NRows(new) = Len(pos)
        /\ Len(new.data) = Len(pos)
        /\ Range(new.columns) \subseteq Range(old.columns)
        /\ new.index_name = old.index_name
        /\ \A j \in 1 .. Len(pos) :
              /\ new.index[j] = old.index[pos[j]]
              /\ \A k \in 1 .. Len(new.columns) :
                    new.data[j][k] =
                        old.data[pos[j]][IndexOf(old.columns, new.columns[k])]

\* a step from a GenomicFeatures to a GenomicFeatures that leaves the rest
FilterStep ==
    /\ IsGF(obj)
    /\ IsGF(obj')
    /\ err' = NoErr
    /\ fs' = fs
    /\ prev' = prev

AllZeros(t, c, rows) ==
    \A i \in rows : t.data[i][IndexOf(t.columns, c)] = Int_(0)

\* the special columns stay
SpecialKept(old, new) ==
    Special \cap Range(old.columns) \subseteq Range(new.columns)

\* of the feature columns of old, new lacks exactly the all-zero ones
PrunedIffAllZeros(old, new, rows) ==
    /\ SpecialKept(old, new)
    /\ \A c \in Range(old.columns) \ Special :
          (c \notin Range(new.columns)) <=> AllZeros(old, c, rows)

\* C8 as claimed: after drop_tissue_in / keep_tissue_in a feature column is
\* dropped if and only if it is all zeros over the remaining rows, and the
\* three special columns are never dropped.
C8_PrunedIffAllZeros ==
    [][FilterStep =>
         \A tissues \in TissueArgs :
            /\ drop_tissue_in(tissues) =>
                  PrunedIffAllZeros(Df(obj), Df(obj)',
                                    RowsWanted(Df(obj), tissues, FALSE))
            /\ keep_tissue_in(tissues) =>
                  PrunedIffAllZeros(Df(obj), Df(obj)',
                                    RowsWanted(Df(obj), tissues, TRUE))
      ]_vars

Binary(t) ==
    \A c \in Range(t.columns) \ Special :
        \A i \in 1 .. NRows(t) : Column(t, c)[i] \in {Int_(0), Int_(1)}

\* the table of the object after one filter, and after a second one
Filtered(h, o, tissues, keep) ==
    LET r == filter_tissue(h, o, tissues, keep)
    IN  Settle(r.heap, r.obj, NoObj)

Once(tissues, keep) ==
    LET a == Filtered(heap, obj, tissues, keep) IN a.heap[a.obj.df]

Twice(first, second, keep) ==
    LET a == Filtered(heap, obj, first, keep)
        b == Filtered(a.heap, a.obj, second, keep)
    IN  b.heap[b.obj.df]

BothTissues(A, B) == TissueList(to_list(A) \o to_list(B))

\* C10: on a GenomicFeatures with binary (0/1) feature columns,
\* drop_tissue_in(A) then drop_tissue_in(B) leaves the same table as B then
\* A and as one drop_tissue_in of A and B together; a drop_tissue_in(A) or
\* keep_tissue_in(A) done a second time changes nothing.
C10_DropsCompose ==
    (IsGF(obj) /\ Binary(Df(obj))) =>
        \A A \in TissueArgs :
            /\ Twice(A, A, FALSE) = Once(A, FALSE)
            /\ Twice(A, A, TRUE) = Once(A, TRUE)
            /\ \A B \in TissueArgs :
                  /\ Twice(A, B, FALSE) = Twice(B, A, FALSE)
                  /\ Twice(A, B, FALSE) = Once(BothTissues(A, B), FALSE)

\* a binary GenomicFeatures of two tissues from which one drop removes a
\* row and a feature column
C10_Witness ==
    /\ IsGF(obj)
    /\ Binary(Df(obj))
    /\ NRows(Df(obj)) = 2
    /\ Len(Df(obj).columns) = 5
    /\ Len(Once(OneTissue("lung"), FALSE).columns) = 4
    /\ Len(Twice(OneTissue("lung"), OneTissue("skin"), FALSE).columns) = 3

(***************************************************************************)
(* Construction.                                                           *)
(***************************************************************************)
Fails == err' # NoErr /\ obj' = NoObj

Columns(t) == Range(t.columns)

\* C3: construction raises, and leaves no object, when the file has no
\* COSMIC ID column (IC50 and GenomicFeatures) and when the file, the object
\* with a df or the dataframe lacks one of the three compulsory columns
\* (GenomicFeatures); every GenomicFeatures that exists has all three.
C3_MissingColumnsRaise ==
    /\ [](IsGF(obj) => Special \subseteq Columns(Df(obj)))
    /\ [][/\ \A cls \in Classes, f \in FileNames, sep \in Seps :
               (/\ fs[f] # NoFile
                /\ \/ COSMIC_ID \notin Range(fs[f].header)
                   \/ cls = "GenomicFeatures"
                      /\ ~(Special \subseteq Range(fs[f].header))
                /\ NewFromFile(cls, f, sep)) => Fails
          /\ (/\ obj # NoObj
              /\ ~(Special \subseteq Columns(Df(obj)))
              /\ NewFromInstance("GenomicFeatures")) => Fails
          /\ \A l \in SrcLocs :
               (/\ heap[l] # NoDf
                /\ ~(Special \subseteq Columns(heap[l]))
                /\ NewFromDataFrame("GenomicFeatures", l)) => Fails
         ]_vars

\* a GenomicFeatures was refused for an input with a COSMIC ID column and
\* without the MS-instability column
C3_Witness ==
    /\ err = "AssertionError"
    /\ obj = NoObj
    /\ COSMIC_ID \in Range(fs["in.tsv"].header)
    /\ col_msi \notin Range(fs["in.tsv"].header)
    /\ fs["out.txt"] = NoFile

DrugIC50Names == {"Drug_1_IC50"}

\* a step that builds an object of class cls and leaves the files
Built(cls) == fs' = fs /\ err' = NoErr /\ obj'.cls = cls

\* C5 as claimed: an IC50 built from a file is indexed by the COSMIC ID
\* column of the file, has exactly the columns of the file named
\* Drug_XX_IC50, in file order, and as many rows as the file, in file order.
C5_OnlyDrugIC50Columns ==
    [][Built("IC50") =>
         \A f \in FileNames, sep \in Seps :
            NewFromFile("IC50", f, sep) =>
               LET rawdf == ReadCsv(fs[f], sep)
               IN  /\ Df(obj)'.index_name = COSMIC_ID
                   /\ Df(obj)'.index = Column(rawdf, COSMIC_ID)
                   /\ NRows(Df(obj)') = Len(fs[f].rows)
                   /\ Df(obj)'.columns =
                        SelectSeq(rawdf.columns,
                                  LAMBDA x : x \in DrugIC50Names)
      ]_vars

\* what cls(arg, sep) gives in the current state, and its table
New(cls, arg, sep) == Init_(cls, heap, fs, arg, sep, obj)

NewDf(r) == r.heap[r.obj.df]

Others(columns) == SelectSeq(columns, LAMBDA x : x \notin DrugUnderscoreNames)

\* C6: a GenomicFeatures never has a column starting with Drug_: whatever it
\* is built from, those columns are removed and the other columns are kept
\* in their order, and the tissue filters add no column.
C6_NoDrugColumns ==
    /\ IsGF(obj) => Columns(Df(obj)) \cap DrugUnderscoreNames = {}
    /\ \A f \in FileNames, sep \in Seps :
          LET r == New("GenomicFeatures", FileArg(f), sep)
          IN  r.err = NoErr =>
                 NewDf(r).columns =
                    Others(SelectSeq(ReadCsv(fs[f], r.obj.sep).columns,
                                     LAMBDA x : x # COSMIC_ID))
    /\ obj # NoObj =>
          LET r == New("GenomicFeatures", InstanceArg, Tab)
          IN  r.err = NoErr => NewDf(r).columns = Others(Df(obj).columns)
    /\ \A l \in SrcLocs :
          LET r == New("GenomicFeatures", FrameArg(l), Tab)
          IN  (heap[l] # NoDf /\ r.err = NoErr) =>
                 NewDf(r).columns = Others(heap[l].columns)
    /\ IsGF(obj) =>
          \A tissues \in TissueArgs, keep \in BOOLEAN :
             Columns(Once(tissues, keep)) \subseteq Columns(Df(obj))

\* a GenomicFeatures with the columns of an input that has a Drug_ column:
\* all but COSMIC ID (the index) and Drug_1_IC50, in the order of the input
C6_Witness ==
    /\ IsGF(obj)
    /\ fs["in.tsv"].header =
          <<COSMIC_ID, col_tissue, "Drug_1_IC50", col_sample, col_msi,
            "BRAF_mut", "Drug1_AUC", "TP53_mut", "loss_cna1">>
    /\ Df(obj).columns =
          <<col_tissue, col_sample, col_msi, "BRAF_mut", "Drug1_AUC",
            "TP53_mut", "loss_cna1">>

(***************************************************************************)
(* Separators and files.                                                   *)
(***************************************************************************)
\* what parsing the file with the separator sep allows: the object is built
\* when the parsed table has the columns the class requires
ParsesWith(cls, file, sep) ==
    LET columns == Columns(ReadCsv(file, sep))
    IN  /\ COSMIC_ID \in columns
        /\ cls = "GenomicFeatures" => Special \subseteq columns

\* C2 as claimed: a file is parsed with the sep argument, for tabs and for
\* commas, and the object keeps that separator as its default for to_csv.
C2_SepArgumentUsed ==
    [][\A cls \in Classes, f \in {"in.tsv", "in.csv"}, sep \in Seps :
          NewFromFile(cls, f, sep) =>
             /\ err' = NoErr <=> ParsesWith(cls, fs[f], sep)
             /\ err' = NoErr => obj'.sep = sep
      ]_vars

\* the table an object of class cls gets from the file f of files; NoDf when
\* the construction raises
ReadBack(cls, files, f, sep) ==
    LET r == Init_(cls, heap, files, FileArg(f), sep, NoObj)
    IN  IF r.err = NoErr THEN r.heap[r.obj.df] ELSE NoDf

\* the sep argument the object was built with: an IC50 keeps it, a
\* GenomicFeatures does not, so that any may have been the one
SameSep(o) == IF o.cls = "IC50" THEN {o.sep} ELSE Seps

\* out.txt is what to_csv of the current object writes by default
Written == obj # NoObj /\ fs["out.txt"] = to_csv_file(heap, obj, NoSep)

RoundTrip ==
    \A sep \in SameSep(obj) : ReadBack(obj.cls, fs, "out.txt", sep) = Df(obj)

Stable(v) == Parse(Format(v)) = v

\* a table as a file gives it: indexed by COSMIC ID, every cell reads as
\* it is written, the columns have names of their own, for an IC50 all
\* starting with Drug and for a GenomicFeatures none with Drug_
FileShaped(cls, t) ==
    /\ t.index_name = COSMIC_ID
    /\ \A i \in 1 .. NRows(t) :
          /\ Stable(t.index[i])
          /\ \A k \in 1 .. Len(t.columns) : Stable(t.data[i][k])
    /\ cls = "IC50" => Columns(t) \subseteq DrugNames
    /\ cls = "GenomicFeatures" => Columns(t) \cap DrugUnderscoreNames = {}
    /\ Cardinality(Columns(t)) = Len(t.columns)
    /\ "" \notin Columns(t)

C9_SourceIsolation ==
    /\ [](obj # NoObj => obj.df \notin SrcLocs /\ obj.df # prev.df)
    /\ [][/\ \A l \in SrcLocs : heap'[l] = heap[l]
          /\ (prev # NoObj /\ prev' = prev /\ fs' = fs) =>
                \A tissues \in TissueArgs, keep \in BOOLEAN :
                   FilterTissue(tissues, keep) => Df(prev)' = Df(prev)
          /\ (obj # NoObj /\ prev' # NoObj /\ prev' # prev) =>
                \A cls \in Classes :
                   NewFromInstance(cls) =>
                      prev'.cls = obj.cls /\ Df(prev)' = Df(obj)
         ]_vars

\* a GenomicFeatures built from another one and then filtered has fewer
\* rows and columns than its source, and the source dataframe still has
\* its Drug_ column
C9_Witness ==
    /\ IsGF(prev)
    /\ IsGF(obj)
    /\ NRows(Df(obj)) < NRows(Df(prev))
    /\ Len(Df(obj).columns) < Len(Df(prev).columns)
    /\ "Drug_1_IC50" \in Columns(heap["raw_frame"])
    /\ "Drug_1_IC50" \in Columns(heap["indexed_frame"])

====
